---------------------------- MODULE Spec2Model ----------------------------
(***************************************************************************)
(* Model of the configurate path types.                                    *)
(*                                                                         *)
(*   src/src/node_path.rs   NodePathImpl: the typed path, an immutable     *)
(*                          Vec<ConfigurationValueType>                    *)
(*   src/src/path/mod.rs    NodePath<'s>: the borrowed view over [&str]    *)
(*   src/src/path/buf.rs    NodePathBuf<'s>: the owned Vec<&str>           *)
(*                                                                         *)
(* Rust indices are 0-based and TLA+ sequences 1-based: position i of a    *)
(* Vec is element i + 1 of the sequence that models it.                    *)
(*                                                                         *)
(* Every method of NodePathImpl is an operator that returns the record     *)
(* [self |-> the receiver's vec after the call, out |-> what is returned], *)
(* so that what a call does to its receiver is part of what is checked.    *)
(***************************************************************************)
EXTENDS Integers, Sequences, FiniteSets

VARIABLES
    vec,      \* NodePathImpl.vec of the typed path under test (also the left operand of +)
    q,        \* a second typed path (the right operand of +)
    r,        \* a third typed path (for the associativity of +)
    ret,      \* the last typed-path call: its name, its arguments and what it returned
    buf,      \* the NodePathBuf under test: [paths |-> Vec contents, cap |-> Vec capacity]
    ctor,     \* how buf was constructed, with the constructor's argument
    pushed,   \* the path views pushed onto buf so far, in push order
    view,     \* a NodePath view (the slice it wraps)
    owned     \* the NodePathBuf made from view by to_node_path_buf, or None

vars == <<vec, q, r, ret, buf, ctor, pushed, view, owned>>

(* ------------------------------ bounds -------------------------------- *)

MaxLen == 3        \* longest typed path under test
MaxAddLen == 2     \* longest first and second operand of +
MaxThirdLen == 1   \* longest third operand of +
MaxViewLen == 2    \* longest view pushed onto a buffer or given to from_slice
MaxPushes == 3     \* most push calls on one buffer
MaxCap == 3        \* largest argument of with_capacity
MaxSliceLen == 4   \* longest view converted to an owned buffer

(* --------------------------- value domains ---------------------------- *)

ConfigurationValueType == {"List", "Map", "Null", "Scalar"}

\* the text segments pushed onto a buffer
Strs == {"a", "b"}

\* the text segments of the views converted to owned buffers
SliceStrs == {"a", "b", "c"}

SeqsUpTo(S, n) == UNION {[1..k -> S] : k \in 0..n}

None == [kind |-> "None"]

\* ret before any call
NoCall == [op |-> "none"]

(* ------------------------- Vec, as the code uses it ------------------- *)

\* Vec::clone / slice::to_vec / collect: a new vector holding the elements in order.
VecClone(v) == [i \in 1..Len(v) |-> v[i]]

\* self.vec.iter().chain(other_vec.iter()).cloned().collect()
ChainCollect(a, b) ==
    [i \in 1..(Len(a) + Len(b)) |-> IF i <= Len(a) THEN a[i] ELSE b[i - Len(a)]]

(* ------------------------------ typed path ---------------------------- *)

NodePathImpl_empty == <<>>

NodePathImpl_of(path) == VecClone(path)

\* Mutant: the position is taken one too far, self.vec.get(index + 1).
Mutant_get_off_by_one(self, index) ==
    [self |-> self,
     out  |-> IF index + 1 < Len(self)
              THEN [kind |-> "Some", seg |-> self[index + 2]]
              ELSE None]

NodePathImpl_get(self, index) ==
    [self |-> self,
     out  |-> IF index < Len(self)
              THEN [kind |-> "Some", seg |-> self[index + 1]]
              ELSE None]

NodePathImpl_size(self) == [self |-> self, out |-> Len(self)]

NodePathImpl_to_vec(self) == [self |-> self, out |-> VecClone(self)]

NodePathImpl_iter(self) == [self |-> self, out |-> [i \in 1..Len(self) |-> self[i]]]

\* Mutant: the empty-path branch returns vec![] and loses the child.
Mutant_appended_child_empty_branch(self, child_key) ==
    IF Len(self) = 0
    THEN [self |-> self, out |-> <<>>]
    ELSE LET child_path == VecClone(self)
         IN  [self |-> self, out |-> Append(child_path, child_key)]

NodePathImpl_with_appended_child(self, child_key) ==
    IF Len(self) = 0
    THEN [self |-> self, out |-> <<child_key>>]
    ELSE LET child_path == VecClone(self)
         IN  [self |-> self, out |-> Append(child_path, child_key)]

\* Mutant: the assignment new_path[index] = value is left out.
Mutant_with_no_assignment(self, index, value) ==
    IF index > Len(self)
    THEN [self |-> self,
          out  |-> [kind |-> "Err", error |-> "IndexOutOfBounds",
                    value |-> index, size |-> Len(self)]]
    ELSE LET new_path == VecClone(self)
         IN  IF index < Len(new_path)
             THEN [self |-> self, out |-> [kind |-> "Ok", vec |-> new_path]]
             ELSE [self |-> self, out |-> [kind |-> "Panic"]]

\* Mutant: the segment is replaced in the receiver's own vec, with no clone.
Mutant_with_in_place(self, index, value) ==
    IF index > Len(self)
    THEN [self |-> self,
          out  |-> [kind |-> "Err", error |-> "IndexOutOfBounds",
                    value |-> index, size |-> Len(self)]]
    ELSE IF index < Len(self)
         THEN LET new_path == [self EXCEPT ![index + 1] = value]
              IN  [self |-> new_path, out |-> [kind |-> "Ok", vec |-> new_path]]
         ELSE [self |-> self, out |-> [kind |-> "Panic"]]

\* The guard is index > len; new_path[index] = value then panics when index = len.
NodePathImpl_with(self, index, value) ==
    IF index > Len(self)
    THEN [self |-> self,
          out  |-> [kind |-> "Err", error |-> "IndexOutOfBounds",
                    value |-> index, size |-> Len(self)]]
    ELSE LET new_path == VecClone(self)
         IN  IF index < Len(new_path)
             THEN [self |-> self,
                   out  |-> [kind |-> "Ok",
                             vec |-> [new_path EXCEPT ![index + 1] = value]]]
             ELSE [self |-> self, out |-> [kind |-> "Panic"]]

\* Mutant: an index past the end is clamped to the last segment instead of panicking.
Mutant_index_clamped(self, index) ==
    IF index < Len(self)
    THEN [self |-> self, out |-> [kind |-> "Value", seg |-> self[index + 1]]]
    ELSE IF Len(self) > 0
         THEN [self |-> self, out |-> [kind |-> "Value", seg |-> self[Len(self)]]]
         ELSE [self |-> self, out |-> [kind |-> "Panic"]]

NodePathImpl_index(self, index) ==
    IF index < Len(self)
    THEN [self |-> self, out |-> [kind |-> "Value", seg |-> self[index + 1]]]
    ELSE [self |-> self, out |-> [kind |-> "Panic"]]

\* Mutant: the operands are chained in the wrong order.
Mutant_add_swapped(self, rhs) ==
    IF Len(self) = 0
    THEN NodePathImpl_to_vec(rhs).out
    ELSE IF NodePathImpl_size(rhs).out = 0
         THEN self
         ELSE LET other_vec == NodePathImpl_to_vec(rhs).out
              IN  ChainCollect(other_vec, self)

\* add takes self by value; rhs is read through size() and to_vec().
NodePathImpl_add(self, rhs) ==
    IF Len(self) = 0
    THEN NodePathImpl_to_vec(rhs).out
    ELSE IF NodePathImpl_size(rhs).out = 0
         THEN self
         ELSE LET other_vec == NodePathImpl_to_vec(rhs).out
              IN  ChainCollect(self, other_vec)

(* ------------------------ string slice path --------------------------- *)

\* The reference to the slice is reinterpreted as a reference to NodePath
\* (repr(transparent)): the view is the slice, seen through the field paths.
NodePath_from_slice(s) == [paths |-> s]

NodePath_as_slice(self) == self.paths

(* ------------------------ string path buffer -------------------------- *)

NodePathBuf_new == [paths |-> <<>>, cap |-> 0]

\* Mutant: the allocation is sized for the slice but the elements are not copied.
Mutant_from_slice_not_copied(s) == [paths |-> <<>>, cap |-> Len(s)]

\* s.as_ref().to_vec(): the allocation holds exactly the copied elements.
NodePathBuf_from_slice(s) == [paths |-> VecClone(s), cap |-> Len(s)]

\* Mutant: the capacity is ignored, Vec::new().
Mutant_with_capacity_ignored(capacity) == [paths |-> <<>>, cap |-> 0]

\* Vec::with_capacity(capacity): an empty Vec whose allocation holds capacity elements.
NodePathBuf_with_capacity(capacity) == [paths |-> <<>>, cap |-> capacity]

NodePathBuf_capacity(self) == self.cap

\* Deref: a view over the buffer's own storage.
NodePathBuf_deref(self) == NodePath_from_slice(self.paths)

NodePath_to_node_path_buf(self) == NodePathBuf_from_slice(self.paths)

Max(a, b) == IF a >= b THEN a ELSE b

\* self.paths.push(p): Vec::push reallocates only when len = capacity, and then
\* to max(2 * capacity, len + 1, 4), 4 being the least non-zero capacity of a
\* Vec of 16-byte elements.
VecPush(self, p) ==
    [paths |-> Append(self.paths, p),
     cap   |-> IF Len(self.paths) = self.cap
               THEN Max(Max(2 * self.cap, Len(self.paths) + 1), 4)
               ELSE self.cap]

\* node_path.as_ref().paths.iter().for_each(|p| self.paths.push(p)), from the
\* i-th segment of the view on.
RECURSIVE PushFrom(_, _, _)
PushFrom(self, paths, i) ==
    IF i > Len(paths) THEN self
    ELSE PushFrom(VecPush(self, paths[i]), paths, i + 1)

\* Mutant: only the first segment of the view is pushed.
Mutant_push_first_only(self, node_path) ==
    IF Len(node_path.paths) = 0 THEN self ELSE VecPush(self, node_path.paths[1])

NodePathBuf_push(self, node_path) == PushFrom(self, node_path.paths, 1)

(* ----------------------- typed path: the calls ------------------------ *)

Indices == 0..(MaxLen + 1)

IdleTyped == vec = NodePathImpl_empty /\ q = NodePathImpl_empty /\ r = NodePathImpl_empty /\ ret = NoCall

IdleBuf ==
    /\ buf = NodePathBuf_new
    /\ ctor = [kind |-> "new", n |-> 0, s |-> <<>>, cap0 |-> NodePathBuf_capacity(NodePathBuf_new)]
    /\ pushed = <<>>

IdleView == view = NodePath_from_slice(<<>>) /\ owned = None

Init ==
    /\ \E path \in SeqsUpTo(ConfigurationValueType, MaxLen) : vec = NodePathImpl_of(path)
    /\ q = NodePathImpl_empty /\ r = NodePathImpl_empty
    /\ ret = NoCall
    /\ IdleBuf
    /\ IdleView

Get(index) ==
    LET call == NodePathImpl_get(vec, index)
    IN  /\ vec' = call.self
        /\ ret' = [op |-> "get", index |-> index, out |-> call.out]
        /\ UNCHANGED <<q, r, buf, ctor, pushed, view, owned>>

Size ==
    LET call == NodePathImpl_size(vec)
    IN  /\ vec' = call.self
        /\ ret' = [op |-> "size", out |-> call.out]
        /\ UNCHANGED <<q, r, buf, ctor, pushed, view, owned>>

ToVec ==
    LET call == NodePathImpl_to_vec(vec)
    IN  /\ vec' = call.self
        /\ ret' = [op |-> "to_vec", out |-> call.out]
        /\ UNCHANGED <<q, r, buf, ctor, pushed, view, owned>>

Iter ==
    LET call == NodePathImpl_iter(vec)
    IN  /\ vec' = call.self
        /\ ret' = [op |-> "iter", out |-> call.out]
        /\ UNCHANGED <<q, r, buf, ctor, pushed, view, owned>>

WithAppendedChild(child_key) ==
    LET call == NodePathImpl_with_appended_child(vec, child_key)
    IN  /\ vec' = call.self
        /\ ret' = [op |-> "with_appended_child", child_key |-> child_key, out |-> call.out]
        /\ UNCHANGED <<q, r, buf, ctor, pushed, view, owned>>

With(index, value) ==
    LET call == NodePathImpl_with(vec, index, value)
    IN  /\ vec' = call.self
        /\ ret' = [op |-> "with", index |-> index, value |-> value, out |-> call.out]
        /\ UNCHANGED <<q, r, buf, ctor, pushed, view, owned>>

IndexOp(index) ==
    LET call == NodePathImpl_index(vec, index)
    IN  /\ vec' = call.self
        /\ ret' = [op |-> "index", index |-> index, out |-> call.out]
        /\ UNCHANGED <<q, r, buf, ctor, pushed, view, owned>>

Next ==
    \/ \E index \in Indices : Get(index)
    \/ Size
    \/ ToVec
    \/ Iter
    \/ \E child_key \in ConfigurationValueType : WithAppendedChild(child_key)
    \/ \E index \in Indices, value \in ConfigurationValueType : With(index, value)
    \/ \E index \in Indices : IndexOp(index)

Spec == Init /\ [][Next]_vars

(* ------------------------- typed path: claims ------------------------- *)

\* C1: with(i, v) with i >= size() (i = size() included) returns the error
\* IndexOutOfBounds{value: i, size: size()} as a result value and never panics.
C1_WithOutOfRangeIsErr ==
    (ret.op = "with" /\ ret.index >= Len(vec)) =>
        ret.out = [kind |-> "Err", error |-> "IndexOutOfBounds",
                   value |-> ret.index, size |-> Len(vec)]

\* C2: with(i, v) with i < size() succeeds; the result has the size of the path,
\* v at position i and the path's own segment at every other position.
C2_WithInRange ==
    (ret.op = "with" /\ ret.index < Len(vec)) =>
        /\ ret.out.kind = "Ok"
        /\ Len(ret.out.vec) = Len(vec)
        /\ ret.out.vec[ret.index + 1] = ret.value
        /\ \A j \in 0..(Len(vec) - 1) : j # ret.index => ret.out.vec[j + 1] = vec[j + 1]

C2_Witness ==
    /\ ret.op = "with"
    /\ Len(vec) = 3
    /\ ret.index = 1
    /\ ret.out.kind = "Ok"
    /\ ret.value # vec[2]

\* C3: with_appended_child(s) is the path's segments in order followed by s: one
\* longer, s last, every earlier position as in the path; also for the empty path.
C3_AppendedChild ==
    ret.op = "with_appended_child" =>
        /\ Len(ret.out) = Len(vec) + 1
        /\ ret.out[Len(vec) + 1] = ret.child_key
        /\ \A j \in 0..(Len(vec) - 1) : ret.out[j + 1] = vec[j + 1]

C3_Witness ==
    /\ ret.op = "with_appended_child"
    /\ vec = <<"Map", "List", "Scalar">>
    /\ ret.child_key = "Null"
    /\ ret.out = <<"Map", "List", "Scalar", "Null">>

C3_WitnessEmpty ==
    /\ ret.op = "with_appended_child"
    /\ vec = <<>>
    /\ Len(ret.out) = 1

\* C7: get(i) never fails: the segment at position i when i < size(), absent
\* when i >= size().
C7_Get ==
    ret.op = "get" =>
        IF ret.index < Len(vec)
        THEN ret.out = [kind |-> "Some", seg |-> vec[ret.index + 1]]
        ELSE ret.out = None

C7_Witness ==
    /\ ret.op = "get"
    /\ Len(vec) = 3
    /\ ret.index = 2
    /\ ret.out.kind = "Some"
    /\ vec[3] # vec[2]

C7_WitnessAbsent ==
    /\ ret.op = "get"
    /\ Len(vec) = 2
    /\ ret.index = 2
    /\ ret.out = None

\* C9: p[i] is the segment get(i) returns when i < size(), and a panic, neither
\* a value nor a recoverable error, when i >= size().
C9_IndexOperator ==
    ret.op = "index" =>
        IF ret.index < Len(vec)
        THEN /\ ret.out.kind = "Value"
             /\ NodePathImpl_get(vec, ret.index).out = [kind |-> "Some", seg |-> ret.out.seg]
        ELSE ret.out = [kind |-> "Panic"]

C9_Witness ==
    /\ ret.op = "index"
    /\ Len(vec) = 2
    /\ ret.index = 1
    /\ ret.out.kind = "Value"
    /\ vec[1] # vec[2]

C9_WitnessPanic ==
    /\ ret.op = "index"
    /\ Len(vec) = 2
    /\ ret.index = 2
    /\ ret.out.kind = "Panic"

\* C10: no call that borrows the path (with_appended_child, with whether it
\* succeeds or fails, get, size, to_vec, iter) changes it: size() and every
\* get(i) are after the call what they were before.
C10_NeverMutated ==
    [][ret'.op \in {"with_appended_child", "with", "get", "size", "to_vec", "iter"} =>
          /\ NodePathImpl_size(vec').out = NodePathImpl_size(vec).out
          /\ \A i \in Indices : NodePathImpl_get(vec', i).out = NodePathImpl_get(vec, i).out]_vars

C10_Witness ==
    /\ ret.op = "with"
    /\ ret.out.kind = "Ok"
    /\ ret.out.vec # vec
    /\ Len(vec) = 3

(* --------------------------- concatenation ---------------------------- *)

InitAdd ==
    /\ \E path \in SeqsUpTo(ConfigurationValueType, MaxAddLen) : vec = NodePathImpl_of(path)
    /\ \E path \in SeqsUpTo(ConfigurationValueType, MaxAddLen) : q = NodePathImpl_of(path)
    /\ \E path \in SeqsUpTo(ConfigurationValueType, MaxThirdLen) : r = NodePathImpl_of(path)
    /\ ret = NoCall
    /\ IdleBuf
    /\ IdleView

\* p + q
Add ==
    /\ ret' = [op |-> "add", out |-> NodePathImpl_add(vec, q)]
    /\ UNCHANGED <<vec, q, r, buf, ctor, pushed, view, owned>>

\* empty() + p
AddToEmpty ==
    /\ ret' = [op |-> "empty_add", out |-> NodePathImpl_add(NodePathImpl_empty, vec)]
    /\ UNCHANGED <<vec, q, r, buf, ctor, pushed, view, owned>>

\* p + empty()
AddEmpty ==
    /\ ret' = [op |-> "add_empty", out |-> NodePathImpl_add(vec, NodePathImpl_empty)]
    /\ UNCHANGED <<vec, q, r, buf, ctor, pushed, view, owned>>

\* (p + q) + r and p + (q + r)
AddThree ==
    /\ ret' = [op    |-> "add3",
               left  |-> NodePathImpl_add(NodePathImpl_add(vec, q), r),
               right |-> NodePathImpl_add(vec, NodePathImpl_add(q, r))]
    /\ UNCHANGED <<vec, q, r, buf, ctor, pushed, view, owned>>

NextAdd == Add \/ AddToEmpty \/ AddEmpty \/ AddThree

SpecAdd == InitAdd /\ [][NextAdd]_vars

\* C4: p + q is p's segments followed by q's; empty() + p = p, p + empty() = p,
\* and (p + q) + r = p + (q + r).
C4_Concatenation ==
    /\ ret.op = "add" =>
          /\ Len(ret.out) = Len(vec) + Len(q)
          /\ \A j \in 0..(Len(vec) - 1) : ret.out[j + 1] = vec[j + 1]
          /\ \A j \in 0..(Len(q) - 1) : ret.out[Len(vec) + j + 1] = q[j + 1]
    /\ ret.op = "empty_add" => ret.out = vec
    /\ ret.op = "add_empty" => ret.out = vec
    /\ ret.op = "add3" => ret.left = ret.right

C4_Witness ==
    /\ ret.op = "add3"
    /\ vec = <<"Map", "List">>
    /\ q = <<"Scalar">>
    /\ r = <<"Null">>
    /\ ret.left = <<"Map", "List", "Scalar", "Null">>

(* ------------------------ string path buffer: push --------------------- *)

Views(n) == {NodePath_from_slice(s) : s \in SeqsUpTo(Strs, n)}

InitBuf ==
    /\ IdleTyped
    /\ IdleView
    /\ pushed = <<>>
    /\ \/ /\ buf = NodePathBuf_new
          /\ ctor = [kind |-> "new", n |-> 0, s |-> <<>>,
                     cap0 |-> NodePathBuf_capacity(buf)]
       \/ \E n \in 0..MaxCap :
             /\ buf = NodePathBuf_with_capacity(n)
             /\ ctor = [kind |-> "with_capacity", n |-> n, s |-> <<>>,
                        cap0 |-> NodePathBuf_capacity(buf)]
       \/ \E s \in SeqsUpTo(Strs, MaxViewLen) :
             /\ buf = NodePathBuf_from_slice(s)
             /\ ctor = [kind |-> "from_slice", n |-> 0, s |-> s,
                        cap0 |-> NodePathBuf_capacity(buf)]

Push(node_path) ==
    /\ Len(pushed) < MaxPushes
    /\ buf' = NodePathBuf_push(buf, node_path)
    /\ pushed' = Append(pushed, NodePath_as_slice(node_path))
    /\ UNCHANGED <<vec, q, r, ret, ctor, view, owned>>

NextBuf == \E node_path \in Views(MaxViewLen) : Push(node_path)

SpecBuf == InitBuf /\ [][NextBuf]_vars

\* the segments of a sequence of views, view after view
RECURSIVE Flatten(_)
Flatten(ss) == IF ss = <<>> THEN <<>> ELSE Head(ss) \o Flatten(Tail(ss))

\* C5: as_slice() is the initial segments followed by the segments of every
\* pushed view, in push order and in each view's order, none dropped,
\* reordered or deduplicated.
C5_PushAccumulates ==
    NodePath_as_slice(NodePathBuf_deref(buf)) = ctor.s \o Flatten(pushed)

C5_Witness ==
    /\ ctor.kind = "from_slice"
    /\ ctor.s = <<"b">>
    /\ pushed = << <<"a">>, <<"b", "b">>, <<"a">> >>
    /\ NodePath_as_slice(NodePathBuf_deref(buf)) = <<"b", "a", "b", "b", "a">>

C5_WitnessSingles ==
    /\ ctor.kind = "new"
    /\ pushed = << <<"a">>, <<"b">>, <<"a">> >>
    /\ NodePath_as_slice(NodePathBuf_deref(buf)) = <<"a", "b", "a">>

\* C8: a buffer made by with_capacity(n) has the capacity it was made with for
\* as long as no more than n segments have been pushed.
C8_NoReallocWithinCapacity ==
    (ctor.kind = "with_capacity" /\ Len(NodePath_as_slice(NodePathBuf_deref(buf))) <= ctor.n) =>
        NodePathBuf_capacity(buf) = ctor.cap0

C8_Witness ==
    /\ ctor.kind = "with_capacity"
    /\ ctor.n = 3
    /\ Len(pushed) = 2
    /\ Len(buf.paths) = 3
    /\ NodePathBuf_capacity(buf) = 3

\* past the preallocated capacity the buffer does reallocate
C8_WitnessGrown ==
    /\ ctor.kind = "with_capacity"
    /\ ctor.n = 3
    /\ Len(buf.paths) = 4
    /\ NodePathBuf_capacity(buf) = 6

(* -------------------- string slice path: to owned ---------------------- *)

InitView ==
    /\ IdleTyped
    /\ IdleBuf
    /\ \E s \in SeqsUpTo(SliceStrs, MaxSliceLen) : view = NodePath_from_slice(s)
    /\ owned = None

ToNodePathBuf ==
    /\ owned' = NodePath_to_node_path_buf(view)
    /\ UNCHANGED <<vec, q, r, ret, buf, ctor, pushed, view>>

NextView == ToNodePathBuf

SpecView == InitView /\ [][NextView]_vars

\* C6: the buffer made from a view reads back as the view: as_slice() of the
\* buffer has the length of the view's and the same text at every position.
C6_RoundTrip ==
    owned # None =>
        LET back == NodePath_as_slice(NodePathBuf_deref(owned))
            orig == NodePath_as_slice(view)
        IN  /\ Len(back) = Len(orig)
            /\ \A i \in 1..Len(orig) : back[i] = orig[i]

C6_Witness ==
    /\ owned # None
    /\ NodePath_as_slice(view) = <<"a", "b", "a", "c">>
    /\ NodePath_as_slice(NodePathBuf_deref(owned)) = <<"a", "b", "a", "c">>

=============================================================================
